---------------------------- MODULE Spec2Model ----------------------------
(***************************************************************************)
(* Model of the skip-list priority queue LockFreePQ<int> and its hazard    *)
(* domain (lockfree_pq.hpp, kept as src/unnamed/part_000) and of the demo  *)
(* driver that exercises it (src/main.cpp).                                *)
(*                                                                         *)
(* Every atomic load, store and compare_exchange of the source is one      *)
(* step of the thread that executes it; thread-local computation is merged *)
(* into the shared access that follows it.  The labels of the program      *)
(* counter are the source lines of part_000 (F.. findNode, P.. push,       *)
(* Q.. pop, A.. protect, R.. retire, S.. scan, D.. the destructor) and of   *)
(* main.cpp (prod_.., cons_.., main_..).                                   *)
(*                                                                         *)
(* Memory order: a store is visible to every thread when its step is       *)
(* taken, except the release store of protect (line 49), which the same    *)
(* thread follows with a load of another location (line 50).  Neither      *)
(* C++11 nor x86-TSO orders those two, so that store goes to the thread's  *)
(* store buffer hpBuf and becomes visible by a step of its own, HpVisible. *)
(* Every other store of the source is followed by a read-modify-write or   *)
(* a lock before the thread's next shared load, which drains the buffer.   *)
(*                                                                         *)
(* A dereference of the null pointer is undefined behaviour; every build   *)
(* of the repository (CMakeLists.txt: gcc/clang, Release or sanitizers, on *)
(* a hosted system) answers it with a memory fault that kills the process: *)
(* crashed becomes TRUE and no thread takes another step.  A dereference   *)
(* of a node that was deleted is undefined as well: the thread either      *)
(* faults or goes on with what the memory holds (the stale node, or the    *)
(* node that meanwhile reuses the address).                                *)
(***************************************************************************)
EXTENDS Integers, Naturals, Sequences, FiniteSets, TLC

\* ------------------------------------------------------------- bounds
NumProducers == 1      \* --producers: 0..NumProducers
NumConsumers == 2      \* --consumers: 0..NumConsumers
Iterations == 1        \* --iters: 0..Iterations
MaxValue == 1          \* the driver draws values from 0..INT_MAX; here 0..MaxValue
MaxNodes == 2          \* value nodes that can be allocated at the same time
MaxSeq == 3            \* longest sequence of the single-threaded drain scenario
MaxLevel == 2          \* LockFreePQ::MaxLevel, 16 in the source: levels 0..MaxLevel
NumReaders == 1        \* threads that call protect in the hazard-domain scenario
MaxBuf == 1            \* stores a thread can have issued and not yet made visible
MaxObjects == 1        \* objects the reclaimer publishes in the hazard-domain scenario

\* -------------------------------------------------- program constants
MAX_HAZARD_POINTERS == 128

Levels == 0..MaxLevel
Values == 0..MaxValue
IntMin == (0 - MaxValue) - 1     \* std::numeric_limits<int>::min()
SizeMod == 2 ^ 8                 \* size_t arithmetic wraps (width scaled down)

\* ------------------------------------------------------------ pointers
NULL == 0
head_ == 1
tail_ == 2
NodeIds == 3..(2 + MaxNodes)
Ptr == {NULL, head_, tail_} \cup NodeIds
UNINIT == -1                      \* an object that was never written

\* ------------------------------------------------------------- threads
Main == 0
Producers == 1..NumProducers
Consumers == (NumProducers + 1)..(NumProducers + NumConsumers)
Client == NumProducers + NumConsumers + 1
Reclaimer == Client + 1
Readers == (Reclaimer + 1)..(Reclaimer + NumReaders)
Threads == {Main} \cup Producers \cup Consumers \cup {Client, Reclaimer} \cup Readers

VARIABLES
  \* LockFreePQ::Node fields, per address
  next, marked, fullyLinked, topLevel, value,
  alloc,            \* addresses that hold a constructed node now
  count_,           \* LockFreePQ::count_
  hp_,              \* HazardDomain::hp_, as the map from the slots that hold
                    \* a non-null pointer to that pointer (of the
                    \* MAX_HAZARD_POINTERS slots; the constructor nulls all)
  retired_,         \* HazardDomain::retired_, the pointers in order
  mtx_,             \* HazardDomain::mtx_, the set of its holders
  hpBuf,            \* per thread: its hp_ stores (slot, pointer) that are not
                    \* yet visible to the other threads, oldest first
  \* per thread: the locals of protect, retire and scan
  p_, idx, protRet,
  ptr, retRet,
  hazards, slot, it, scanRet,
  scanFrom, deleted, \* history: retired_ when the scan began, and the pointers
                    \* whose deleter it has invoked, in order
  \* hazard-domain client (spec section 4.1): the shared cell that protect reads,
  \* and the number of objects made for it so far
  addr, made,
  \* process
  crashed,          \* the process was killed by a memory fault
  exited,           \* std::exit(EXIT_FAILURE) was called
  uaf,              \* some thread touched a deleted node
  dfree,            \* some thread deleted an address that holds no node
  \* main.cpp
  num_producers, num_consumers, iterations,
  producers_done, total_pushes, total_pops, j, last_value, out,
  \* single-threaded client (spec section 8, R1)
  input, todo, got,
  \* per thread: position and the locals of push, pop and findNode
  pc, opRet, popRet,
  item, pTop, newNode, lvl, node, desired,
  key, preds, succs, pred, curr, succ, level, found, ret

heapVars == <<next, marked, fullyLinked, topLevel, value, alloc>>
protVars == <<p_, idx, protRet>>
retVars == <<ptr, retRet>>
scanVars == <<hazards, slot, it, scanRet, scanFrom, deleted>>
rcVars == <<addr, made>>
rdVars == <<hp_, retired_, mtx_, hpBuf, protVars, retVars, scanVars, rcVars>>
procVars == <<crashed, exited>>
argVars == <<num_producers, num_consumers, iterations>>
mainVars == <<argVars, producers_done, total_pushes, total_pops, j, last_value>>
clientVars == <<input, todo, got>>
opVars == <<item, pTop, newNode, lvl, node, desired>>
findVars == <<key, preds, succs, pred, curr, succ, level, found, ret>>
vars == <<heapVars, count_, rdVars, procVars, uaf, dfree, mainVars, out, clientVars,
          pc, opRet, popRet, opVars, findVars>>

Running == ~crashed /\ ~exited
Goto(t, l) == pc' = [pc EXCEPT ![t] = l]

\* A dereference of p: NULL faults; a deleted node may fault or be read.
Dangling(p) == p # NULL /\ p \notin alloc
FaultChoices(p) == IF p = NULL THEN {TRUE}
                   ELSE IF Dangling(p) THEN {TRUE, FALSE} ELSE {FALSE}
Touch(p) == uaf' = (uaf \/ Dangling(p)) /\ dfree' = dfree

\* delete p: the address holds a node no longer.  Deleting an address that
\* holds no node is undefined: the allocator aborts the process or goes on.
Delete(p) ==
  /\ alloc' = alloc \ {p}
  /\ dfree' = (dfree \/ Dangling(p))

Fault ==
  /\ crashed' = TRUE
  /\ UNCHANGED <<heapVars, count_, rdVars, exited, uaf, dfree, mainVars, out,
                 clientVars, pc, opRet, popRet, opVars, findVars>>

\* --------------------------------------------------------- construction
\* Node(int level): topLevel(level), marked(false), fullyLinked(false),
\* next[0..level] = nullptr; then the queue links head to tail on every level.
\* (Mutant: the constructor without lines 175-176, head never linked to tail.)
SentinelNext_Unlinked(n) == [l \in Levels |-> NULL]

SentinelNext(n) == [l \in Levels |-> IF n = head_ THEN tail_ ELSE NULL]

InitQueue ==
  /\ next = [n \in Ptr \ {NULL} |-> SentinelNext(n)]
  /\ marked = [n \in Ptr \ {NULL} |-> FALSE]
  /\ fullyLinked = [n \in Ptr \ {NULL} |-> FALSE]
  /\ topLevel = [n \in Ptr \ {NULL} |-> MaxLevel]
  /\ value = [n \in Ptr \ {NULL} |-> 0]
  /\ alloc = {head_, tail_}
  /\ count_ = 0
  /\ hp_ = [i \in {} |-> NULL]
  /\ retired_ = <<>>
  /\ mtx_ = {}
  /\ hpBuf = [t \in Threads |-> <<>>]
  /\ p_ = [t \in Threads |-> NULL]
  /\ idx = [t \in Threads |-> 0]
  /\ protRet = [t \in Threads |-> "none"]
  /\ ptr = [t \in Threads |-> NULL]
  /\ retRet = [t \in Threads |-> "none"]
  /\ hazards = [t \in Threads |-> {}]
  /\ slot = [t \in Threads |-> 0]
  /\ it = [t \in Threads |-> 1]
  /\ scanRet = [t \in Threads |-> "none"]
  /\ scanFrom = [t \in Threads |-> <<>>]
  /\ deleted = [t \in Threads |-> <<>>]
  /\ addr = NULL
  /\ made = 0
  /\ crashed = FALSE
  /\ exited = FALSE
  /\ uaf = FALSE
  /\ dfree = FALSE

InitLocals ==
  /\ opRet = [t \in Threads |-> "none"]
  /\ popRet = [t \in Threads |-> FALSE]
  /\ item = [t \in Threads |-> UNINIT]
  /\ pTop = [t \in Threads |-> 0]
  /\ newNode = [t \in Threads |-> NULL]
  /\ lvl = [t \in Threads |-> 0]
  /\ node = [t \in Threads |-> NULL]
  /\ desired = [t \in Threads |-> NULL]
  /\ key = [t \in Threads |-> UNINIT]
  /\ preds = [t \in Threads |-> [l \in Levels |-> NULL]]
  /\ succs = [t \in Threads |-> [l \in Levels |-> NULL]]
  /\ pred = [t \in Threads |-> NULL]
  /\ curr = [t \in Threads |-> NULL]
  /\ succ = [t \in Threads |-> NULL]
  /\ level = [t \in Threads |-> 0]
  /\ found = [t \in Threads |-> FALSE]
  /\ ret = [t \in Threads |-> "none"]
  /\ out = [t \in Threads |-> UNINIT]
  /\ j = [t \in Threads |-> 0]
  /\ last_value = [t \in Threads |-> IntMin]
  /\ producers_done = FALSE
  /\ total_pushes = 0
  /\ total_pops = 0

\* ------------------------------------------------------------- findNode
\* The call: found = false, pred = head_, level = MaxLevel (lines 135-137).
EnterFind(t, k, r) ==
  /\ key' = [key EXCEPT ![t] = k]
  /\ ret' = [ret EXCEPT ![t] = r]
  /\ found' = [found EXCEPT ![t] = FALSE]
  /\ pred' = [pred EXCEPT ![t] = head_]
  /\ level' = [level EXCEPT ![t] = MaxLevel]
  /\ Goto(t, "F138")

\* line 138: curr = pred->next[level]
F138(t) ==
  \E f \in FaultChoices(pred[t]) :
    IF f THEN Fault
    ELSE /\ curr' = [curr EXCEPT ![t] = next[pred[t]][level[t]]]
         /\ Goto(t, "F140")
         /\ Touch(pred[t])
         /\ UNCHANGED <<heapVars, count_, rdVars, procVars, mainVars, out,
                        clientVars, opRet, popRet, opVars,
                        key, preds, succs, pred, succ, level, found, ret>>

\* line 140: succ = curr->next[level]
F140(t) ==
  \E f \in FaultChoices(curr[t]) :
    IF f THEN Fault
    ELSE /\ succ' = [succ EXCEPT ![t] = next[curr[t]][level[t]]]
         /\ Goto(t, "F142")
         /\ Touch(curr[t])
         /\ UNCHANGED <<heapVars, count_, rdVars, procVars, mainVars, out,
                        clientVars, opRet, popRet, opVars,
                        key, preds, succs, pred, curr, level, found, ret>>

\* line 142: while (curr->marked)
F142(t) ==
  \E f \in FaultChoices(curr[t]) :
    IF f THEN Fault
    ELSE /\ Goto(t, IF marked[curr[t]] THEN "F143" ELSE "F152")
         /\ Touch(curr[t])
         /\ UNCHANGED <<heapVars, count_, rdVars, procVars, mainVars, out,
                        clientVars, opRet, popRet, opVars, findVars>>

\* lines 143-145, 149: pred->next[level].compare_exchange_strong(curr, succ);
\* a failed exchange stores what it found into curr.
F143(t) ==
  \E f \in FaultChoices(pred[t]) :
    IF f THEN Fault
    ELSE /\ IF next[pred[t]][level[t]] = curr[t]
            THEN /\ next' = [next EXCEPT ![pred[t]][level[t]] = succ[t]]
                 /\ curr' = [curr EXCEPT ![t] = succ[t]]
                 /\ Goto(t, "F150")
            ELSE /\ next' = next
                 /\ curr' = [curr EXCEPT ![t] = next[pred[t]][level[t]]]
                 /\ Goto(t, "F146")
         /\ Touch(pred[t])
         /\ UNCHANGED <<marked, fullyLinked, topLevel, value, alloc, count_,
                        rdVars, procVars, mainVars, out, clientVars, opRet,
                        popRet, opVars,
                        key, preds, succs, pred, succ, level, found, ret>>

\* lines 146-147: curr = pred->next[level]; continue (the inner while)
F146(t) ==
  \E f \in FaultChoices(pred[t]) :
    IF f THEN Fault
    ELSE /\ curr' = [curr EXCEPT ![t] = next[pred[t]][level[t]]]
         /\ Goto(t, "F142")
         /\ Touch(pred[t])
         /\ UNCHANGED <<heapVars, count_, rdVars, procVars, mainVars, out,
                        clientVars, opRet, popRet, opVars,
                        key, preds, succs, pred, succ, level, found, ret>>

\* line 150: succ = curr->next[level]
F150(t) ==
  \E f \in FaultChoices(curr[t]) :
    IF f THEN Fault
    ELSE /\ succ' = [succ EXCEPT ![t] = next[curr[t]][level[t]]]
         /\ Goto(t, "F142")
         /\ Touch(curr[t])
         /\ UNCHANGED <<heapVars, count_, rdVars, procVars, mainVars, out,
                        clientVars, opRet, popRet, opVars,
                        key, preds, succs, pred, curr, level, found, ret>>

\* line 152: the test that lets the walk go on
Advance(c, k) == c = tail_ \/ value[c] < k

\* lines 152-160: advance, or record preds[level], succs[level] and descend
F152(t) ==
  \E f \in (IF curr[t] = tail_ THEN {FALSE} ELSE FaultChoices(curr[t])) :
    IF f THEN Fault
    ELSE /\ IF Advance(curr[t], key[t])
            THEN /\ pred' = [pred EXCEPT ![t] = curr[t]]
                 /\ curr' = [curr EXCEPT ![t] = succ[t]]
                 /\ Goto(t, "F140")
                 /\ UNCHANGED <<preds, succs, level>>
            ELSE /\ preds' = [preds EXCEPT ![t][level[t]] = pred[t]]
                 /\ succs' = [succs EXCEPT ![t][level[t]] = curr[t]]
                 /\ IF level[t] > 0
                    THEN /\ level' = [level EXCEPT ![t] = level[t] - 1]
                         /\ Goto(t, "F138")
                    ELSE /\ level' = level
                         /\ Goto(t, "F162")
                 /\ UNCHANGED <<pred, curr>>
         /\ uaf' = (uaf \/ (curr[t] # tail_ /\ Dangling(curr[t])))
         /\ dfree' = dfree
         /\ UNCHANGED <<heapVars, count_, rdVars, procVars, mainVars, out,
                        clientVars, opRet, popRet, opVars,
                        key, succ, found, ret>>

\* lines 162-164: found = succs[0] != tail_ && succs[0]->value == key; return
F162(t) ==
  \E f \in (IF succs[t][0] = tail_ THEN {FALSE} ELSE FaultChoices(succs[t][0])) :
    IF f THEN Fault
    ELSE /\ found' = [found EXCEPT ![t] =
                        succs[t][0] # tail_ /\ value[succs[t][0]] = key[t]]
         /\ Goto(t, ret[t])
         /\ uaf' = (uaf \/ (succs[t][0] # tail_ /\ Dangling(succs[t][0])))
         /\ dfree' = dfree
         /\ UNCHANGED <<heapVars, count_, rdVars, procVars, mainVars, out,
                        clientVars, opRet, popRet, opVars,
                        key, preds, succs, pred, curr, succ, level, ret>>

findNode(t) ==
  /\ Running
  /\ pc[t] \in {"F138", "F140", "F142", "F143", "F146", "F150", "F152", "F162"}
  /\ CASE pc[t] = "F138" -> F138(t)
       [] pc[t] = "F140" -> F140(t)
       [] pc[t] = "F142" -> F142(t)
       [] pc[t] = "F143" -> F143(t)
       [] pc[t] = "F146" -> F146(t)
       [] pc[t] = "F150" -> F150(t)
       [] pc[t] = "F152" -> F152(t)
       [] pc[t] = "F162" -> F162(t)

\* ----------------------------------------------------------------- push
\* lines 126-131: a level in 0..MaxLevel, by coin flips
randomLevel == Levels

\* lines 199-203: topLevel = randomLevel(); findNode(item, preds, succs)
P201(t) ==
  \E l \in randomLevel :
    /\ pTop' = [pTop EXCEPT ![t] = l]
    /\ EnterFind(t, item[t], "P204")
    /\ UNCHANGED <<heapVars, count_, rdVars, procVars, uaf, dfree, mainVars, out,
                   clientVars, opRet, popRet, item, newNode, lvl, node, desired,
                   preds, succs, curr, succ>>

\* lines 204-206: newNode = new Node(item, topLevel), whose constructor sets
\* next[0..topLevel] to nullptr; then newNode->next[l] = succs[l], l <= topLevel
P204(t) ==
  \E n \in NodeIds \ alloc :
    /\ alloc' = alloc \cup {n}
    /\ value' = [value EXCEPT ![n] = item[t]]
    /\ topLevel' = [topLevel EXCEPT ![n] = pTop[t]]
    /\ marked' = [marked EXCEPT ![n] = FALSE]
    /\ fullyLinked' = [fullyLinked EXCEPT ![n] = FALSE]
    /\ next' = [next EXCEPT ![n] =
                  [l \in Levels |-> IF l <= pTop[t] THEN succs[t][l] ELSE next[n][l]]]
    /\ newNode' = [newNode EXCEPT ![t] = n]
    /\ Goto(t, "P209")
    /\ UNCHANGED <<count_, rdVars, procVars, uaf, dfree, mainVars, out, clientVars,
                   opRet, popRet, item, pTop, lvl, node, desired, findVars>>

\* lines 207-214: preds[0]->next[0].compare_exchange_strong(succ, newNode);
\* on failure delete newNode and start over
P209(t) ==
  \E f \in FaultChoices(preds[t][0]) :
    IF f THEN Fault
    ELSE /\ Touch(preds[t][0])
         /\ IF next[preds[t][0]][0] = succs[t][0]
            THEN /\ next' = [next EXCEPT ![preds[t][0]][0] = newNode[t]]
                 /\ lvl' = [lvl EXCEPT ![t] = 1]
                 /\ Goto(t, IF 1 <= pTop[t] THEN "P216" ELSE "P222")
                 /\ UNCHANGED <<alloc, findVars>>
            ELSE /\ alloc' = alloc \ {newNode[t]}
                 /\ EnterFind(t, item[t], "P204")
                 /\ UNCHANGED <<next, lvl, preds, succs, curr, succ>>
         /\ UNCHANGED <<marked, fullyLinked, topLevel, value, count_, rdVars,
                        procVars, mainVars, out, clientVars, opRet, popRet,
                        item, pTop, newNode, node, desired>>

\* lines 215-221: preds[lvl]->next[lvl].compare_exchange_strong(succs[lvl],
\* newNode); a failed exchange stores what it found into succs[lvl] and
\* findNode runs again
P216(t) ==
  \E f \in FaultChoices(preds[t][lvl[t]]) :
    IF f THEN Fault
    ELSE /\ Touch(preds[t][lvl[t]])
         /\ IF next[preds[t][lvl[t]]][lvl[t]] = succs[t][lvl[t]]
            THEN /\ next' = [next EXCEPT ![preds[t][lvl[t]]][lvl[t]] = newNode[t]]
                 /\ lvl' = [lvl EXCEPT ![t] = lvl[t] + 1]
                 /\ Goto(t, IF lvl[t] + 1 <= pTop[t] THEN "P216" ELSE "P222")
                 /\ UNCHANGED findVars
            ELSE /\ EnterFind(t, item[t], "P216")
                 /\ succs' = [succs EXCEPT ![t][lvl[t]] =
                                next[preds[t][lvl[t]]][lvl[t]]]
                 /\ UNCHANGED <<next, lvl, preds, curr, succ>>
         /\ UNCHANGED <<marked, fullyLinked, topLevel, value, alloc, count_,
                        rdVars, procVars, mainVars, out, clientVars, opRet,
                        popRet, item, pTop, newNode, node, desired>>

\* line 222: newNode->fullyLinked.store(true)
P222(t) ==
  \E f \in FaultChoices(newNode[t]) :
    IF f THEN Fault
    ELSE /\ Touch(newNode[t])
         /\ fullyLinked' = [fullyLinked EXCEPT ![newNode[t]] = TRUE]
         /\ Goto(t, "P223")
         /\ UNCHANGED <<next, marked, topLevel, value, alloc, count_, rdVars,
                        procVars, mainVars, out, clientVars, opRet, popRet,
                        opVars, findVars>>

\* lines 223-225: count_.fetch_add(1); return
P223(t) ==
  /\ count_' = (count_ + 1) % SizeMod
  /\ Goto(t, opRet[t])
  /\ UNCHANGED <<heapVars, rdVars, procVars, uaf, dfree, mainVars, out, clientVars,
                 opRet, popRet, opVars, findVars>>

push(t) ==
  /\ Running
  /\ pc[t] \in {"push", "P204", "P209", "P216", "P222", "P223"}
  /\ CASE pc[t] = "push" -> P201(t)
       [] pc[t] = "P204" -> P204(t)
       [] pc[t] = "P209" -> P209(t)
       [] pc[t] = "P216" -> P216(t)
       [] pc[t] = "P222" -> P222(t)
       [] pc[t] = "P223" -> P223(t)

\* --------------------------------------------------------- HazardDomain
\* hp_ with slot i holding q (a null slot is left out of the map).
SetSlot(h, i, q) ==
  IF q = NULL THEN [k \in DOMAIN h \ {i} |-> h[k]]
  ELSE [k \in DOMAIN h \cup {i} |-> IF k = i THEN q ELSE h[k]]

\* The slot as its writer sees it: its latest store, visible or not.
OwnSlot(t, i) ==
  LET mine == SelectSeq(hpBuf[t], LAMBDA e : e[1] = i)
  IN IF mine # <<>> THEN mine[Len(mine)][2]
     ELSE IF i \in DOMAIN hp_ THEN hp_[i] ELSE NULL

\* protect(addr, idx), lines 45-52.  The call:
EnterProtect(t, i, r) ==
  /\ idx' = [idx EXCEPT ![t] = i]
  /\ protRet' = [protRet EXCEPT ![t] = r]
  /\ Goto(t, "A48")

\* The loop body as a sequentially consistent machine would run it: the store
\* of line 49 is visible to every thread at once (no store buffer).
A48_Visible(t) ==
  /\ p_' = [p_ EXCEPT ![t] = addr]
  /\ hp_' = SetSlot(hp_, idx[t], addr)
  /\ Goto(t, "A50")
  /\ UNCHANGED <<heapVars, count_, retired_, mtx_, hpBuf, idx, protRet,
                 retVars, scanVars, rcVars, procVars, uaf, dfree, mainVars,
                 out, clientVars, opRet, popRet, opVars, findVars>>

\* line 48: p = addr.load(acquire); line 49: hp_[idx].store(p, release).
\* A release store followed by an acquire load of another object (line 50) is
\* not ordered with it: the store is issued here, into the thread's store
\* buffer (a step no other thread can see, so it is taken together with the
\* load before it), and becomes visible to the other threads later (HpVisible).
A48(t) ==
  /\ Len(hpBuf[t]) < MaxBuf
  /\ p_' = [p_ EXCEPT ![t] = addr]
  /\ hpBuf' = [hpBuf EXCEPT ![t] = Append(hpBuf[t], <<idx[t], addr>>)]
  /\ Goto(t, "A50")
  /\ UNCHANGED <<heapVars, count_, hp_, retired_, mtx_, idx, protRet,
                 retVars, scanVars, rcVars, procVars, uaf, dfree, mainVars,
                 out, clientVars, opRet, popRet, opVars, findVars>>

\* line 50: while (p != addr.load(acquire)); line 51: return p
A50(t) ==
  /\ Goto(t, IF p_[t] # addr THEN "A48" ELSE protRet[t])
  /\ UNCHANGED <<heapVars, count_, rdVars, procVars, uaf, dfree, mainVars, out,
                 clientVars, opRet, popRet, opVars, findVars>>

ProtectLabels == {"A48", "A50"}

protect(t) ==
  /\ Running
  /\ pc[t] \in ProtectLabels
  /\ IF pc[t] = "A48" THEN A48(t) ELSE A50(t)

\* The oldest store of line 49 that thread t has issued becomes visible.
HpVisible(t) ==
  /\ Running
  /\ hpBuf[t] # <<>>
  /\ hp_' = SetSlot(hp_, Head(hpBuf[t])[1], Head(hpBuf[t])[2])
  /\ hpBuf' = [hpBuf EXCEPT ![t] = Tail(hpBuf[t])]
  /\ UNCHANGED <<heapVars, count_, retired_, mtx_, protVars, retVars, scanVars,
                 rcVars, procVars, uaf, dfree, mainVars, out, clientVars, pc,
                 opRet, popRet, opVars, findVars>>

\* The slots that threads are given; every other slot stays null.
SlotOf(t) == t - (Reclaimer + 1)
UsedSlots == {SlotOf(t) : t \in Readers}

\* scan(), lines 62-78.  The call: hazards is empty, i = 0.
EnterScan(t, r) ==
  /\ hazards' = [hazards EXCEPT ![t] = {}]
  /\ slot' = [slot EXCEPT ![t] = 0]
  /\ scanRet' = [scanRet EXCEPT ![t] = r]
  /\ deleted' = [deleted EXCEPT ![t] = <<>>]
  /\ Goto(t, "S65")

\* lines 65-68: p = hp_[i].load(acquire); if (p) hazards.push_back(p).  One
\* step reads the next slot that some thread uses, after the null slots
\* before it; behind the last one, line 69: it = retired_.begin()
S65(t) ==
  LET rest == {k \in UsedSlots : k >= slot[t] /\ k < MAX_HAZARD_POINTERS}
  IN IF rest = {}
     THEN /\ it' = [it EXCEPT ![t] = 1]
          /\ scanFrom' = [scanFrom EXCEPT ![t] = retired_]
          /\ Goto(t, "S70")
          /\ UNCHANGED <<hazards, slot>>
     ELSE LET k == CHOOSE m \in rest : \A n \in rest : m <= n
          IN /\ hazards' = [hazards EXCEPT ![t] =
                              hazards[t] \cup ({OwnSlot(t, k)} \ {NULL})]
             /\ slot' = [slot EXCEPT ![t] = k + 1]
             /\ UNCHANGED <<it, scanFrom, pc>>

\* (Mutant: the walk erases every record, protected or not, without deleting.)
S70_EraseAll(t) ==
  /\ IF it[t] > Len(retired_)
     THEN /\ Goto(t, scanRet[t])
          /\ UNCHANGED retired_
     ELSE /\ retired_' = Tail(retired_)
          /\ UNCHANGED pc
  /\ UNCHANGED <<heapVars, count_, hp_, mtx_, hpBuf, protVars, retVars,
                 scanVars, rcVars, procVars, uaf, dfree, mainVars, out,
                 clientVars, opRet, popRet, opVars, findVars>>

\* lines 70-77: a record whose pointer is not among hazards has its deleter
\* invoked (delete static_cast<Node*>(p)) and is erased; the others are kept.
\* At retired_.end() the call returns (line 78) and its locals are gone.
S70(t) ==
  IF it[t] > Len(retired_)
  THEN /\ Goto(t, scanRet[t])
       /\ hazards' = [hazards EXCEPT ![t] = {}]
       /\ slot' = [slot EXCEPT ![t] = 0]
       /\ it' = [it EXCEPT ![t] = 1]
       /\ scanFrom' = [scanFrom EXCEPT ![t] = <<>>]
       /\ deleted' = [deleted EXCEPT ![t] = <<>>]
       /\ UNCHANGED <<heapVars, count_, hp_, retired_, mtx_, hpBuf, protVars,
                      retVars, scanRet, rcVars, procVars, uaf, dfree, mainVars,
                      out, clientVars, opRet, popRet, opVars, findVars>>
  ELSE LET q == retired_[it[t]]
       IN IF q \in hazards[t]
          THEN /\ it' = [it EXCEPT ![t] = it[t] + 1]
               /\ UNCHANGED <<heapVars, count_, hp_, retired_, mtx_, hpBuf,
                              protVars, retVars, hazards, slot, scanRet,
                              scanFrom, deleted, rcVars, procVars, uaf, dfree,
                              mainVars, out, clientVars, pc, opRet, popRet,
                              opVars, findVars>>
          ELSE \E f \in (IF Dangling(q) THEN {TRUE, FALSE} ELSE {FALSE}) :
                 IF f THEN Fault
                 ELSE /\ Delete(q)
                      /\ retired_' = SubSeq(retired_, 1, it[t] - 1)
                                       \o SubSeq(retired_, it[t] + 1, Len(retired_))
                      /\ deleted' = [deleted EXCEPT ![t] = Append(deleted[t], q)]
                      /\ UNCHANGED <<next, marked, fullyLinked, topLevel, value,
                                     count_, hp_, mtx_, hpBuf, protVars, retVars,
                                     hazards, slot, it, scanRet, scanFrom,
                                     rcVars, procVars, uaf, mainVars, out,
                                     clientVars, pc, opRet, popRet, opVars,
                                     findVars>>

ScanLabels == {"S65", "S70"}

scan_steps(t) ==
  IF pc[t] = "S65"
  THEN /\ S65(t)
       /\ UNCHANGED <<heapVars, count_, hp_, retired_, mtx_, hpBuf, protVars,
                      retVars, scanRet, deleted, rcVars, procVars, uaf, dfree,
                      mainVars, out, clientVars, opRet, popRet, opVars,
                      findVars>>
  ELSE S70(t)

scan(t) ==
  /\ Running
  /\ pc[t] \in ScanLabels
  /\ scan_steps(t)

\* retire(ptr, deleter), lines 55-59.  The call:
EnterRetire(t, q, r) ==
  /\ ptr' = [ptr EXCEPT ![t] = q]
  /\ retRet' = [retRet EXCEPT ![t] = r]
  /\ Goto(t, "R56")

\* lines 56-58: lock_guard lock(mtx_) (the thread waits while another holds
\* it); retired_.push_back({ptr, deleter}); above the threshold, scan()
R56(t) ==
  /\ mtx_ = {}
  /\ hpBuf[t] = <<>>
  /\ mtx_' = {t}
  /\ retired_' = Append(retired_, ptr[t])
  /\ IF Len(retired_) + 1 > MAX_HAZARD_POINTERS
     THEN EnterScan(t, "R59")
     ELSE /\ Goto(t, "R59")
          /\ UNCHANGED <<hazards, slot, scanRet, deleted>>
  /\ UNCHANGED <<heapVars, count_, hp_, hpBuf, protVars, retVars, it, scanFrom,
                 rcVars, procVars, uaf, dfree, mainVars, out, clientVars, opRet,
                 popRet, opVars, findVars>>

\* line 59: the lock_guard releases mtx_; return
R59(t) ==
  /\ mtx_' = mtx_ \ {t}
  /\ ptr' = [ptr EXCEPT ![t] = NULL]
  /\ Goto(t, retRet[t])
  /\ UNCHANGED <<heapVars, count_, hp_, retired_, hpBuf, protVars, retRet,
                 scanVars, rcVars, procVars, uaf, dfree, mainVars, out,
                 clientVars, opRet, popRet, opVars, findVars>>

RetireLabels == {"R56", "R59"}

retire_steps(t) == IF pc[t] = "R56" THEN R56(t) ELSE R59(t)

retire(t) ==
  /\ Running
  /\ pc[t] \in RetireLabels
  /\ retire_steps(t)

\* ------------------------------------------------------------------ pop
\* (Mutant: pop without the test of line 237.)
Q236_NoEmptyTest(t) ==
  /\ node' = [node EXCEPT ![t] = next[head_][0]]
  /\ Goto(t, "Q239")
  /\ UNCHANGED <<heapVars, count_, rdVars, procVars, uaf, dfree, mainVars, out,
                 clientVars, opRet, popRet, item, pTop, newNode, lvl, desired,
                 findVars>>

\* lines 236-238: node = head_->next[0]; if (node == tail_) return false
Q236(t) ==
  /\ node' = [node EXCEPT ![t] = next[head_][0]]
  /\ IF next[head_][0] = tail_
     THEN /\ popRet' = [popRet EXCEPT ![t] = FALSE]
          /\ Goto(t, opRet[t])
     ELSE /\ popRet' = popRet
          /\ Goto(t, "Q239")
  /\ UNCHANGED <<heapVars, count_, rdVars, procVars, uaf, dfree, mainVars, out,
                 clientVars, opRet, item, pTop, newNode, lvl, desired, findVars>>

\* lines 239-240: if (!node->fullyLinked) continue
Q239(t) ==
  \E f \in FaultChoices(node[t]) :
    IF f THEN Fault
    ELSE /\ Touch(node[t])
         /\ Goto(t, IF fullyLinked[node[t]] THEN "Q242" ELSE "pop")
         /\ UNCHANGED <<heapVars, count_, rdVars, procVars, mainVars, out,
                        clientVars, opRet, popRet, opVars, findVars>>

\* lines 241-248: node->marked.compare_exchange_strong(false, true); the
\* winner sets out = node->value and calls findNode(node->value, preds, succs)
Q242(t) ==
  \E f \in FaultChoices(node[t]) :
    IF f THEN Fault
    ELSE /\ Touch(node[t])
         /\ IF ~marked[node[t]]
            THEN /\ marked' = [marked EXCEPT ![node[t]] = TRUE]
                 /\ out' = [out EXCEPT ![t] = value[node[t]]]
                 /\ EnterFind(t, value[node[t]], "Q249")
            ELSE /\ Goto(t, "pop")
                 /\ UNCHANGED <<marked, out, key, ret, found, pred, level>>
         /\ UNCHANGED <<next, fullyLinked, topLevel, value, alloc, count_,
                        rdVars, procVars, mainVars, clientVars, opRet, popRet,
                        opVars, preds, succs, curr, succ>>

\* line 249: for (int lvl = node->topLevel; lvl >= 0; --lvl)
Q249(t) ==
  \E f \in FaultChoices(node[t]) :
    IF f THEN Fault
    ELSE /\ Touch(node[t])
         /\ lvl' = [lvl EXCEPT ![t] = topLevel[node[t]]]
         /\ Goto(t, "Q251")
         /\ UNCHANGED <<heapVars, count_, rdVars, procVars, mainVars, out,
                        clientVars, opRet, popRet, item, pTop, newNode, node,
                        desired, findVars>>

\* line 251: the exchange's argument node->next[lvl].load()
Q251(t) ==
  \E f \in FaultChoices(node[t]) :
    IF f THEN Fault
    ELSE /\ Touch(node[t])
         /\ desired' = [desired EXCEPT ![t] = next[node[t]][lvl[t]]]
         /\ Goto(t, "Q250")
         /\ UNCHANGED <<heapVars, count_, rdVars, procVars, mainVars, out,
                        clientVars, opRet, popRet, item, pTop, newNode, lvl,
                        node, findVars>>

\* lines 250-253: preds[lvl]->next[lvl].compare_exchange_strong(node, ...);
\* the result is ignored, and a failed exchange stores what it found into node
Q250(t) ==
  \E f \in FaultChoices(preds[t][lvl[t]]) :
    IF f THEN Fault
    ELSE /\ Touch(preds[t][lvl[t]])
         /\ IF next[preds[t][lvl[t]]][lvl[t]] = node[t]
            THEN /\ next' = [next EXCEPT ![preds[t][lvl[t]]][lvl[t]] = desired[t]]
                 /\ node' = node
            ELSE /\ next' = next
                 /\ node' = [node EXCEPT ![t] = next[preds[t][lvl[t]]][lvl[t]]]
         /\ lvl' = [lvl EXCEPT ![t] = lvl[t] - 1]
         /\ Goto(t, IF lvl[t] - 1 >= 0 THEN "Q251" ELSE "Q254")
         /\ UNCHANGED <<marked, fullyLinked, topLevel, value, alloc, count_,
                        rdVars, procVars, mainVars, out, clientVars, opRet,
                        popRet, item, pTop, newNode, desired, findVars>>

\* lines 254-256: domain_->retire(node, deleter)
Q254(t) ==
  /\ EnterRetire(t, node[t], "Q257")
  /\ UNCHANGED <<heapVars, count_, hp_, retired_, mtx_, hpBuf, protVars,
                 scanVars, rcVars, procVars, uaf, dfree, mainVars, out,
                 clientVars, opRet, popRet, opVars, findVars>>

\* lines 257-258: count_.fetch_sub(1); return true
Q257(t) ==
  /\ count_' = (count_ - 1) % SizeMod
  /\ popRet' = [popRet EXCEPT ![t] = TRUE]
  /\ Goto(t, opRet[t])
  /\ UNCHANGED <<heapVars, rdVars, procVars, uaf, dfree, mainVars, out, clientVars,
                 opRet, opVars, findVars>>

pop(t) ==
  /\ Running
  /\ pc[t] \in {"pop", "Q239", "Q242", "Q249", "Q251", "Q250", "Q254", "Q257"}
               \cup RetireLabels \cup ScanLabels
  /\ CASE pc[t] = "pop" -> Q236(t)
       [] pc[t] = "Q239" -> Q239(t)
       [] pc[t] = "Q242" -> Q242(t)
       [] pc[t] = "Q249" -> Q249(t)
       [] pc[t] = "Q251" -> Q251(t)
       [] pc[t] = "Q250" -> Q250(t)
       [] pc[t] = "Q254" -> Q254(t)
       [] pc[t] = "Q257" -> Q257(t)
       [] pc[t] \in RetireLabels -> retire_steps(t)
       [] pc[t] \in ScanLabels -> scan_steps(t)

\* size(): count_.load()
size == count_

\* empty(): count_.load() == 0
empty == count_ = 0

\* ---------------------------------------------------------- destructor
\* (Mutant: the destructor without line 190, tail is never deleted.)
D190_NoDeleteTail(t) ==
  /\ Goto(t, opRet[t])
  /\ UNCHANGED <<heapVars, count_, rdVars, procVars, uaf, dfree, mainVars, out,
                 clientVars, opRet, popRet, opVars, findVars>>

\* line 184: Node* node = head_
EnterDestructor(t, r) ==
  /\ node' = [node EXCEPT ![t] = head_]
  /\ opRet' = [opRet EXCEPT ![t] = r]
  /\ Goto(t, "D185")

\* lines 185-189: while (node) { next = node->next[0]; delete node;
\* node = (next == tail_) ? nullptr : next; }
D185(t) ==
  IF node[t] = NULL
  THEN /\ Goto(t, "D190")
       /\ UNCHANGED <<heapVars, count_, rdVars, procVars, uaf, dfree, mainVars,
                      out, clientVars, opRet, popRet, opVars, findVars>>
  ELSE \E f \in FaultChoices(node[t]) :
         IF f THEN Fault
         ELSE /\ uaf' = (uaf \/ Dangling(node[t]))
              /\ Delete(node[t])
              /\ node' = [node EXCEPT ![t] =
                            IF next[node[t]][0] = tail_ THEN NULL
                            ELSE next[node[t]][0]]
              /\ Goto(t, "D185")
              /\ UNCHANGED <<next, marked, fullyLinked, topLevel, value, count_,
                             rdVars, procVars, mainVars, out, clientVars, opRet,
                             popRet, item, pTop, newNode, lvl, desired,
                             findVars>>

\* line 190: delete tail_
D190(t) ==
  \E f \in FaultChoices(tail_) :
    IF f THEN Fault
    ELSE /\ Delete(tail_)
         /\ Goto(t, opRet[t])
         /\ UNCHANGED <<next, marked, fullyLinked, topLevel, value, count_,
                        rdVars, procVars, uaf, mainVars, out, clientVars, opRet,
                        popRet, opVars, findVars>>

DestructorLabels == {"D185", "D190"}

destructor(t) ==
  /\ Running
  /\ pc[t] \in DestructorLabels
  /\ IF pc[t] = "D185" THEN D185(t) ELSE D190(t)

\* ------------------------------------------------------------- main.cpp
\* lines 52-59: for (j < iterations) { value = dist(rng); pq.push(value);
\* total_pushes.fetch_add(1); }
producer(t) ==
  /\ Running
  /\ t \in Producers
  /\ pc[t] \in {"prod_loop", "prod_pushed"}
  /\ IF pc[t] = "prod_loop"
     THEN /\ IF j[t] < iterations
             THEN \E v \in Values :
                    /\ item' = [item EXCEPT ![t] = v]
                    /\ opRet' = [opRet EXCEPT ![t] = "prod_pushed"]
                    /\ Goto(t, "push")
             ELSE /\ Goto(t, "prod_done")
                  /\ UNCHANGED <<item, opRet>>
          /\ UNCHANGED <<total_pushes, j>>
     ELSE /\ total_pushes' = total_pushes + 1
          /\ j' = [j EXCEPT ![t] = j[t] + 1]
          /\ Goto(t, "prod_loop")
          /\ UNCHANGED <<item, opRet>>
  /\ UNCHANGED <<heapVars, count_, rdVars, procVars, uaf, dfree, argVars,
                 producers_done, total_pops, last_value, out, clientVars,
                 popRet, pTop, newNode, lvl, node, desired, findVars>>

\* lines 70-85: while (!producers_done || pq.size() > 0) { if (pq.pop(out)) {
\* total_pops.fetch_add(1); if (out < last_value) std::exit(EXIT_FAILURE);
\* last_value = out; } }
consumer(t) ==
  /\ Running
  /\ t \in Consumers
  /\ pc[t] \in {"cons_loop", "cons_size", "cons_popped"}
  /\ CASE pc[t] = "cons_loop" ->
            /\ Goto(t, IF ~producers_done THEN "pop" ELSE "cons_size")
            /\ opRet' = [opRet EXCEPT ![t] = "cons_popped"]
            /\ UNCHANGED <<total_pops, last_value, exited>>
       [] pc[t] = "cons_size" ->
            /\ Goto(t, IF size > 0 THEN "pop" ELSE "cons_done")
            /\ UNCHANGED <<opRet, total_pops, last_value, exited>>
       [] pc[t] = "cons_popped" ->
            /\ IF popRet[t]
               THEN /\ total_pops' = total_pops + 1
                    /\ exited' = (out[t] < last_value[t])
                    /\ last_value' = [last_value EXCEPT ![t] =
                                        IF out[t] < last_value[t]
                                        THEN last_value[t] ELSE out[t]]
               ELSE UNCHANGED <<total_pops, last_value, exited>>
            /\ Goto(t, "cons_loop")
            /\ UNCHANGED opRet
  /\ UNCHANGED <<heapVars, count_, rdVars, crashed, uaf, dfree, argVars,
                 producers_done, total_pushes, j, out, clientVars, popRet,
                 opVars, findVars>>

\* lines 91-93: join the producers; producers_done.store(true); join the
\* consumers
main_join ==
  /\ CASE pc[Main] = "main_join_producers" ->
            /\ \A p \in Producers : pc[p] \in {"prod_done", "off"}
            /\ Goto(Main, "main_store")
            /\ UNCHANGED producers_done
       [] pc[Main] = "main_store" ->
            /\ producers_done' = TRUE
            /\ Goto(Main, "main_join_consumers")
       [] pc[Main] = "main_join_consumers" ->
            /\ \A c \in Consumers : pc[c] \in {"cons_done", "off"}
            /\ Goto(Main, "main_joined")
            /\ UNCHANGED producers_done
  /\ UNCHANGED <<heapVars, count_, rdVars, procVars, uaf, dfree, argVars,
                 total_pushes, total_pops, j, last_value, out, clientVars,
                 opRet, popRet, opVars, findVars>>

\* lines 103-115: the pop latencies of all consumers are merged (one per
\* successful pop) and percentile(50) reads pops[idx], idx = min(..., size - 1);
\* with no latency at all pops is a vector that never allocated, size - 1 wraps
\* and pops[0] is read through its null data pointer.
main_report ==
  IF total_pops = 0 THEN Fault
  ELSE /\ Goto(Main, "main_return")
       /\ UNCHANGED <<heapVars, count_, rdVars, procVars, uaf, dfree, mainVars,
                      out, clientVars, opRet, popRet, opVars, findVars>>

\* lines 140-141: return 0; pq goes out of scope and ~LockFreePQ runs
main_return ==
  /\ EnterDestructor(Main, "main_exit")
  /\ UNCHANGED <<heapVars, count_, rdVars, procVars, uaf, dfree, mainVars, out,
                 clientVars, popRet, item, pTop, newNode, lvl, desired,
                 findVars>>

\* lines 91-93: join the producers; producers_done.store(true); join the
\* consumers; then the report, and the queue's destructor at the return
main ==
  /\ Running
  /\ pc[Main] \in {"main_join_producers", "main_store", "main_join_consumers",
                   "main_joined", "main_return"} \cup DestructorLabels
  /\ IF pc[Main] = "main_joined" THEN main_report
     ELSE IF pc[Main] = "main_return" THEN main_return
     ELSE IF pc[Main] \in DestructorLabels
          THEN IF pc[Main] = "D185" THEN D185(Main) ELSE D190(Main)
     ELSE main_join

\* ------------------------------------------------ single-threaded client
\* Spec section 8, R1: push v1..vn, then pop n+1 times, keeping what each pop
\* returned (EMPTY for the empty indicator); at the end the queue is destroyed
\* (spec section 6, destroy(PQ), called when no operation is in progress).
EMPTY == IntMin - 1

client(t) ==
  /\ Running
  /\ t = Client
  /\ pc[t] \in {"cl_push", "cl_pop", "cl_popped", "cl_done"}
  /\ CASE pc[t] = "cl_push" ->
            /\ IF todo # <<>>
               THEN /\ item' = [item EXCEPT ![t] = Head(todo)]
                    /\ todo' = Tail(todo)
                    /\ opRet' = [opRet EXCEPT ![t] = "cl_push"]
                    /\ Goto(t, "push")
               ELSE /\ Goto(t, "cl_pop")
                    /\ UNCHANGED <<item, todo, opRet>>
            /\ UNCHANGED <<got, node>>
       [] pc[t] = "cl_pop" ->
            /\ IF Len(got) <= Len(input)
               THEN /\ opRet' = [opRet EXCEPT ![t] = "cl_popped"]
                    /\ Goto(t, "pop")
               ELSE /\ Goto(t, "cl_done")
                    /\ UNCHANGED opRet
            /\ UNCHANGED <<item, todo, got, node>>
       [] pc[t] = "cl_popped" ->
            /\ got' = Append(got, IF popRet[t] THEN out[t] ELSE EMPTY)
            /\ Goto(t, "cl_pop")
            /\ UNCHANGED <<item, todo, opRet, node>>
       [] pc[t] = "cl_done" ->
            /\ EnterDestructor(t, "cl_end")
            /\ UNCHANGED <<item, todo, got>>
  /\ UNCHANGED <<heapVars, count_, rdVars, procVars, uaf, dfree, mainVars, out,
                 input, popRet, pTop, newNode, lvl, desired, findVars>>

\* ------------------------------------------------- hazard-domain client
\* Spec section 4.1: threads that use the reclamation domain as its contract
\* says.  The reclaimer takes the object out of the shared cell (putting a new
\* one or null in), retires what it took out, once, and scans; a reader
\* protects what the cell holds in its own slot and then reads the object.
reclaimer(t) ==
  /\ Running
  /\ t = Reclaimer
  /\ pc[t] \in {"rc_swap", "rc_scan"}
  /\ IF pc[t] = "rc_swap"
     THEN /\ hpBuf[t] = <<>>
          /\ \E n \in (IF made < MaxObjects THEN {tail_ + made + 1} ELSE {})
                       \cup ({NULL} \ {addr}) :
               /\ alloc' = alloc \cup ({n} \ {NULL})
               /\ made' = IF n = NULL THEN made ELSE made + 1
               /\ addr' = n
          /\ IF addr # NULL
             THEN EnterRetire(t, addr, "rc_scan")
             ELSE /\ Goto(t, "rc_swap")
                  /\ UNCHANGED retVars
          /\ UNCHANGED <<dfree, scanVars>>
     ELSE /\ EnterScan(t, "rc_swap")
          /\ UNCHANGED <<alloc, dfree, retVars, it, scanFrom, rcVars>>
  /\ UNCHANGED <<next, marked, fullyLinked, topLevel, value, count_, hp_,
                 retired_, mtx_, hpBuf, protVars, procVars, uaf, mainVars, out,
                 clientVars, opRet, popRet, opVars, findVars>>

reader(t) ==
  /\ Running
  /\ t \in Readers
  /\ pc[t] \in {"rd_protect", "rd_use"}
  /\ IF pc[t] = "rd_protect"
     THEN /\ EnterProtect(t, SlotOf(t), "rd_use")
          /\ UNCHANGED <<heapVars, count_, hp_, retired_, mtx_, hpBuf, p_,
                         retVars, scanVars, rcVars, procVars, uaf, dfree,
                         mainVars, out, clientVars, opRet, popRet, opVars,
                         findVars>>
     ELSE \E f \in (IF p_[t] = NULL THEN {FALSE} ELSE FaultChoices(p_[t])) :
            IF f THEN Fault
            ELSE /\ Touch(p_[t])
                 /\ p_' = [p_ EXCEPT ![t] = NULL]
                 /\ EnterProtect(t, SlotOf(t), "rd_use")
                 /\ UNCHANGED <<heapVars, count_, hp_, retired_, mtx_, hpBuf,
                                retVars, scanVars, rcVars,
                                procVars, mainVars, out, clientVars, opRet,
                                popRet, opVars, findVars>>

\* -------------------------------------------------------- specifications
\* main.cpp, lines 19-87: the arguments are read, the queue is constructed and
\* num_producers producers and num_consumers consumers are started.
Init ==
  /\ InitQueue
  /\ InitLocals
  /\ num_producers \in 0..NumProducers
  /\ num_consumers \in 0..NumConsumers
  /\ iterations \in 0..Iterations
  /\ input = <<>>
  /\ todo = <<>>
  /\ got = <<>>
  /\ pc = [t \in Threads |->
             IF t = Main THEN "main_join_producers"
             ELSE IF t \in Producers /\ t <= num_producers THEN "prod_loop"
             ELSE IF t \in Consumers /\ t - NumProducers <= num_consumers
                  THEN "cons_loop" ELSE "off"]

Next ==
  \/ \E t \in Threads : findNode(t)
  \/ \E t \in Threads : push(t)
  \/ \E t \in Threads : pop(t)
  \/ \E t \in Threads : producer(t)
  \/ \E t \in Threads : consumer(t)
  \/ main

Spec == Init /\ [][Next]_vars

\* The single-threaded client on a freshly constructed queue, for every
\* sequence of at most MaxSeq values.
SeqsUpTo(n) == UNION {[1..k -> Values] : k \in 0..n}

InitDrain ==
  /\ InitQueue
  /\ InitLocals
  /\ num_producers = 0
  /\ num_consumers = 0
  /\ iterations = 0
  /\ input \in SeqsUpTo(MaxSeq)
  /\ todo = input
  /\ got = <<>>
  /\ pc = [t \in Threads |-> IF t = Client THEN "cl_push" ELSE "off"]

NextDrain ==
  \/ \E t \in Threads : findNode(t)
  \/ \E t \in Threads : push(t)
  \/ \E t \in Threads : pop(t)
  \/ \E t \in Threads : client(t)
  \/ \E t \in Threads : destructor(t)

SpecDrain == InitDrain /\ [][NextDrain]_vars

\* The hazard-domain client: one reclaimer and the readers.
InitHazard ==
  /\ InitQueue
  /\ InitLocals
  /\ num_producers = 0
  /\ num_consumers = 0
  /\ iterations = 0
  /\ input = <<>>
  /\ todo = <<>>
  /\ got = <<>>
  /\ pc = [t \in Threads |-> IF t = Reclaimer THEN "rc_swap"
                             ELSE IF t \in Readers THEN "rd_protect" ELSE "off"]

NextHazard ==
  \/ \E t \in Threads : protect(t)
  \/ \E t \in Threads : HpVisible(t)
  \/ \E t \in Threads : retire(t)
  \/ \E t \in Threads : scan(t)
  \/ \E t \in Threads : reclaimer(t)
  \/ \E t \in Threads : reader(t)

SpecHazard == InitHazard /\ [][NextHazard]_vars

\* ------------------------------------------------------------ positions
FindLabels == {"F138", "F140", "F142", "F143", "F146", "F150", "F152", "F162"}
PushLabels == {"push", "P204", "P209", "P216", "P222", "P223"}
PopLabels == {"pop", "Q239", "Q242", "Q249", "Q251", "Q250", "Q254", "Q257"}

\* Thread t is inside push or pop (findNode runs on behalf of one of them).
InOp(t) == pc[t] \in FindLabels \cup PushLabels \cup PopLabels

ThreadStep(t) ==
  \/ findNode(t)
  \/ push(t)
  \/ pop(t)
  \/ producer(t)
  \/ consumer(t)
  \/ (t = Main /\ main)
  \/ client(t)

\* --------------------------------------- facts about the reachable states
\* Every findNode walks past tail (line 152 advances when curr == tail_) and
\* dereferences tail's null successor at line 140: no call of findNode ever
\* returns, so no push allocates, links or counts a node and no pop finds one.
FindNeverReturns == \A t \in Threads : pc[t] # "F162"

PushNeverLinks ==
  \A t \in Threads : pc[t] \notin {"P204", "P209", "P216", "P222", "P223"}

PopNeverFindsNode ==
  \A t \in Threads : pc[t] \in PopLabels => pc[t] = "pop"

QueueNeverChanges ==
  /\ \A l \in Levels : next[head_][l] = tail_ /\ next[tail_][l] = NULL
  /\ alloc \subseteq {head_, tail_}
  /\ alloc = {head_, tail_}
       \/ \E t \in Threads : pc[t] \in DestructorLabels \cup {"cl_end", "main_exit"}
  /\ count_ = 0
  /\ retired_ = <<>>
  /\ ~uaf
  /\ ~dfree

\* A fault is the null dereference of line 140, right behind tail, or the
\* report's read of an empty vector.
CrashedOnlyBehindTail ==
  crashed => \/ \E t \in Threads :
                  pc[t] = "F140" /\ pred[t] = tail_ /\ curr[t] = NULL
             \/ pc[Main] = "main_joined" /\ total_pops = 0

\* ---------------------------------------------------------------- claims
Sorted(s) == \A i \in 1..(Len(s) - 1) : s[i] <= s[i + 1]
Count(s, v) == Cardinality({i \in DOMAIN s : s[i] = v})
IsPermutation(a, b) ==
  /\ Len(a) = Len(b)
  /\ \A v \in Values \cup {EMPTY} : Count(a, v) = Count(b, v)

DrainResultOk ==
  LET n == Len(input)
  IN /\ Len(got) = n + 1
     /\ got[n + 1] = EMPTY
     /\ Sorted(SubSeq(got, 1, n))
     /\ IsPermutation(SubSeq(got, 1, n), input)

\* The client is through with its pushes and pops.
ClientDone == pc[Client] \in {"cl_done", "cl_end"} \cup DestructorLabels

\* C2: single-threaded drain.  On a fresh queue, for every sequence v1..vn and
\* every choice of tower heights, the client's n pushes and n+1 pops all
\* return (the run goes on until it is done), the first n pops returned the
\* pushed values in non-decreasing order, and the last one the empty indicator.
DrainSorted ==
  /\ ClientDone => DrainResultOk
  /\ ~ClientDone => ENABLED NextDrain

RECURSIVE Walk(_, _)
Walk(n, fuel) ==
  IF n = tail_ THEN <<>>
  ELSE IF n = NULL \/ fuel = 0 THEN <<NULL>>
  ELSE <<n>> \o Walk(next[n][0], fuel - 1)

\* The nodes met on the way from head to tail along next[0]; NULL closes the
\* sequence when the walk falls off the list or outlasts the nodes there are.
BottomPath == Walk(next[head_][0], MaxNodes + 1)

NonBlocking == \A t \in Threads : InOp(t) => ENABLED ThreadStep(t)

\* The step of a pop that reads head.next[0] = tail.
PopOnEmpty(t) ==
  (pc[t] = "pop" /\ next[head_][0] = tail_ /\ pc'[t] # pc[t])
    => /\ pc'[t] = opRet[t]
       /\ popRet'[t] = FALSE
       /\ out' = out
       /\ UNCHANGED <<heapVars, count_, rdVars>>

\* A pop at its first line waits for nothing while the process runs.
PopCanStep ==
  \A t \in Threads : (pc[t] = "pop" /\ Running) => ENABLED pop(t)

\* C8: a pop that finds head.next[0] = tail returns the empty indicator in
\* one step of its own, which it can always take, and the step changes neither
\* the output argument nor any node, link, mark, count_ or the reclamation
\* domain.
PopEmptyReturnsEmpty ==
  /\ []PopCanStep
  /\ [][\A t \in Threads : PopOnEmpty(t)]_vars

\* C8 witness: a consumer's pop has returned the empty indicator, its output
\* argument still unwritten, while a producer is inside push.
PopEmptyWitness ==
  /\ \E c \in Consumers :
       pc[c] = "cons_popped" /\ ~popRet[c] /\ out[c] = UNINIT
  /\ \E p \in Producers : pc[p] \in FindLabels

\* main is past the joins of lines 91-93.
AllJoined == pc[Main] \in {"main_joined", "main_return"}

\* C9: the harness drains.  Until main has joined every thread the program
\* can take a step (no thread is stopped for good), and once it has joined
\* them total_pops = total_pushes and the queue is empty.
HarnessDrains ==
  /\ AllJoined => total_pops = total_pushes /\ next[head_][0] = tail_ /\ size = 0
  /\ pc[Main] \in {"main_join_producers", "main_store", "main_join_consumers"}
       => ENABLED Next

\* The client is between two calls: no push or pop is in progress.
ClientQuiescent == pc[Client] \in {"cl_push", "cl_pop", "cl_popped", "cl_done"}

\* Pushes that returned and pops that returned a value, for the client.
CompletedPushes == Len(input) - Len(todo)
SuccessfulPops ==
  Cardinality({i \in DOMAIN got : got[i] # EMPTY})
    + (IF pc[Client] = "cl_popped" /\ popRet[Client] THEN 1 ELSE 0)

\* Unmarked value nodes on the way from head to tail along next[0].
LiveOnBottom ==
  Cardinality({i \in DOMAIN BottomPath :
                 BottomPath[i] # NULL /\ ~marked[BottomPath[i]]})

\* C11: at every quiescent point size() = completed pushes - successful pops
\* = the number of unmarked value nodes on level 0, and empty() is true
\* exactly when the next pop would find head.next[0] = tail; the client that
\* pushes one element and pops it comes to its end (no call stops for good),
\* got that element back, and then size() = 0 and empty() is true.
QuiescentSize ==
  /\ ClientQuiescent =>
       /\ size = CompletedPushes - SuccessfulPops
       /\ size = LiveOnBottom
       /\ empty <=> (next[head_][0] = tail_)
  /\ (pc[Client] = "cl_done" /\ Len(input) = 1) =>
       got[1] = input[1] /\ size = 0 /\ empty
  /\ (Len(input) = 1 /\ ~ClientDone) => ENABLED NextDrain

\* The addresses waiting in the retired list.
RetiredPtrs == {retired_[i] : i \in DOMAIN retired_}

\* The destructor has run to its end.
Destroyed == \E t \in Threads : pc[t] \in {"cl_end", "main_exit"}

FindNodePost(t) ==
  \A l \in Levels :
    /\ preds[t][l] = head_
         \/ (preds[t][l] \in NodeIds /\ value[preds[t][l]] < key[t])
    /\ succs[t][l] = tail_
         \/ (succs[t][l] \in NodeIds /\ value[succs[t][l]] >= key[t])

\* C13: findNode never walks onto tail (pred is the node whose next pointers
\* it reads), never holds a null pointer in curr once it has loaded it, can
\* always take its next step (it ends without a fault), and at its last line
\* preds[l] is head or a node with a smaller value and succs[l] is tail or a
\* node whose value is not smaller, on every level.
FindNodeSafe ==
  \A t \in Threads :
    /\ pc[t] \in FindLabels => pred[t] # tail_ /\ ENABLED findNode(t)
    /\ pc[t] \in FindLabels \ {"F138"} => curr[t] # NULL
    /\ pc[t] = "F162" => FindNodePost(t)

\* The walk of scan has come to retired_.end().
ScanEnded(t) == pc[t] = "S70" /\ it[t] > Len(retired_)

\* A step of thread t's scan.
ScanStep(t) ==
  /\ pc[t] \in ScanLabels
  /\ <<pc[t], hazards[t], slot[t], it[t], deleted[t]>>'
       # <<pc[t], hazards[t], slot[t], it[t], deleted[t]>>

\* When a scan ends, the records it found whose pointer is in its snapshot
\* are the retired list, in order, and the others had their deleter invoked,
\* once each, and are deleted.
ScanResult ==
  \A t \in Threads :
    ScanEnded(t) =>
      /\ retired_ = SelectSeq(scanFrom[t], LAMBDA q : q \in hazards[t])
      /\ deleted[t] = SelectSeq(scanFrom[t], LAMBDA q : q \notin hazards[t])
      /\ \A k \in DOMAIN deleted[t] : deleted[t][k] \notin alloc
      /\ ~dfree

\* C18: each scan invokes the deleter exactly once for every retired record
\* whose pointer is absent from its snapshot of the hazard slots and erases
\* it, keeps every record whose pointer is in the snapshot without invoking
\* its deleter, and no step of a scan changes a hazard slot.
ScanExact ==
  /\ []ScanResult
  /\ [][\A t \in Threads : ScanStep(t) => UNCHANGED <<hp_, hpBuf>>]_vars

\* C18 witness: a scan has ended that found a retired record whose pointer is
\* in its snapshot of the slots, and kept it.
ScanWitness ==
  \E t \in Threads :
    ScanEnded(t) /\ scanFrom[t] # <<>> /\ hazards[t] # {} /\ retired_ # <<>>

\* C19: when protect has returned p to a reader, the reader's slot holds p
\* (its latest store to it), and as long as the reader has not called protect
\* again no scan has deleted p: the reader reads a live object.
ProtectProtects ==
  \A t \in Readers :
    pc[t] = "rd_use" =>
      /\ OwnSlot(t, idx[t]) = p_[t]
      /\ p_[t] = NULL \/ p_[t] \in alloc

=============================================================================
